---- MODULE Spec2Model ----
(***************************************************************************)
(* A model of notebooks/01-Transformer101.ipynb: the Config dataclass, the *)
(* layers of the GPT-2 style Transformer (EmbeddingLayer,                  *)
(* PositionEmbedding, LayerNorm, SelfAttention, MLP, TransformerBlock,     *)
(* UnembeddingLayer), Transformer.__init__ / Transformer.forward and       *)
(* cross_entropy_lm.                                                       *)
(*                                                                         *)
(* Tensors are nested sequences (index 1 of a sequence is Python index 0). *)
(* A float is held in fixed point: the integer v stands for v / FP.        *)
(* Products are rescaled by FP, quotients round toward zero, and exp       *)
(* underflows to exactly 0 for a sufficiently negative argument, as a      *)
(* float32 exp does.                                                       *)
(***************************************************************************)
EXTENDS Integers, Sequences, FiniteSets, TLC

(***************************************************************************)
(* Bounds of the model.                                                    *)
(***************************************************************************)
MaxBatch == 2
MaxPos == 3
MaxBlocks == 2

(***************************************************************************)
(* Fixed-point arithmetic.                                                 *)
(***************************************************************************)
FP == 10 * 10

Abs(a) == IF a < 0 THEN -a ELSE a
Min(a, b) == IF a < b THEN a ELSE b
Max(a, b) == IF a > b THEN a ELSE b

\* a / b rounded toward zero
Quot(a, b) ==
    IF (a >= 0) = (b > 0) THEN Abs(a) \div Abs(b) ELSE -(Abs(a) \div Abs(b))

\* the fixed-point product a * b, without forming a * b
Mul(a, b) ==
    LET hi == Quot(b, FP)
        lo == b - hi * FP
    IN  a * hi + Quot(a * lo, FP)

\* the fixed-point quotient a / b, without forming a * FP
DivFP(a, b) ==
    LET q == Quot(a, b)
        r == a - q * b
    IN  q * FP + Quot(r * FP, b)

RECURSIVE TupTo(_, _)
TupTo(f, n) == IF n = 0 THEN <<>> ELSE Append(TupTo(f, n - 1), f[n])

\* the sequence f[1], ..., f[n] of a function f on 1..n, each element
\* evaluated once
Tup(f) == TupTo(f, Cardinality(DOMAIN f))

RECURSIVE SumFn(_, _)
\* f[1] + ... + f[n]
SumFn(f, n) == IF n = 0 THEN 0 ELSE f[n] + SumFn(f, n - 1)

Sum(s) == SumFn(s, Len(s))

RECURSIVE MaxFn(_, _)
\* the largest of f[1], ..., f[n], n >= 1
MaxFn(f, n) == IF n = 1 THEN f[1] ELSE Max(f[n], MaxFn(f, n - 1))

RECURSIVE ISqrtFrom(_, _)
ISqrtFrom(n, r) == IF (r + 1) * (r + 1) > n THEN r ELSE ISqrtFrom(n, r + 1)

RECURSIVE ISqrt(_)
\* floor(sqrt(n)), n >= 0
ISqrt(n) == IF n < 4 THEN ISqrtFrom(n, 0) ELSE ISqrtFrom(n, 2 * ISqrt(n \div 4))

\* the fixed-point square root of the fixed-point v >= 0
SqrtFP(v) == ISqrt(v * FP)

RECURSIVE Pow2(_)
Pow2(k) == IF k = 0 THEN 1 ELSE 2 * Pow2(k - 1)

RECURSIVE Log2Floor(_)
\* floor(log2(s / FP)) for s >= FP
Log2Floor(s) == IF s < 2 * FP THEN 0 ELSE 1 + Log2Floor(s \div 2)

\* the number of binary digits below which a fixed-point exp is 0
ExpBits == 1 + Log2Floor(2 * FP * FP)

\* exp(d) for a fixed-point d <= 0: 2^(d * log2(e)), the fraction of the
\* exponent interpolated linearly, 0 once the result is below one unit
ExpFP(d) ==
    LET n == Quot((-d) * 1443, 1000)
        k == n \div FP
        f == n % FP
    IN  IF -d >= ExpBits * FP \/ k >= ExpBits THEN 0
        ELSE (2 * FP - f) \div Pow2(k + 1)

\* log(s) for a fixed-point s >= 1.0: log2(s) * ln(2), the mantissa
\* interpolated linearly
LogFP(s) ==
    LET k == Log2Floor(s)
        m == s \div Pow2(k)
    IN  Quot((k * FP + (m - FP)) * 693, 1000)

\* tanh(z) = sign(z) * (1 - exp(-2|z|)) / (1 + exp(-2|z|))
TanhFP(z) ==
    LET e == ExpFP(-(2 * Abs(z)))
        t == DivFP(FP - e, FP + e)
    IN  IF z < 0 THEN -t ELSE t

(***************************************************************************)
(* Tensor helpers.                                                         *)
(***************************************************************************)
\* the shape of a [batch, position, width] tensor
Shape3(t) == <<Len(t), Len(t[1]), Len(t[1][1])>>

\* the shape of a [batch, position] tensor
Shape2(t) == <<Len(t), Len(t[1])>>

\* Python's index normalisation: a negative index counts from the end
PyIndex(i, n) == IF i < 0 THEN i + n ELSE i

\* whether i is an index Python accepts into a dimension of size n
PyIndexOK(i, n) == i >= -n /\ i < n

\* torch broadcasting of the position axis of two [batch, pos, width]
\* tensors of equal batch and width
Broadcastable(a, b) ==
    \/ Len(a[1]) = Len(b[1])
    \/ Len(a[1]) = 1
    \/ Len(b[1]) = 1

BroadcastAdd(a, b) ==
    LET P == Max(Len(a[1]), Len(b[1]))
        at(t, batch, pos) == IF Len(t[batch]) = 1 THEN t[batch][1] ELSE t[batch][pos]
    IN  Tup([batch \in 1..Len(a) |->
            Tup([pos \in 1..P |->
                Tup([m \in 1..Len(a[1][1]) |->
                    at(a, batch, pos)[m] + at(b, batch, pos)[m]])])])

\* a + b for two [batch, pos, width] tensors of one shape
TensorAdd(a, b) ==
    Tup([batch \in 1..Len(a) |->
        Tup([pos \in 1..Len(a[batch]) |->
            Tup([m \in 1..Len(a[batch][pos]) |-> a[batch][pos][m] + b[batch][pos][m]])])])

\* a - b for two tensors of one shape
TensorSub(a, b) ==
    Tup([batch \in 1..Len(a) |->
        Tup([pos \in 1..Len(a[batch]) |->
            Tup([m \in 1..Len(a[batch][pos]) |-> a[batch][pos][m] - b[batch][pos][m]])])])

(***************************************************************************)
(* EmbeddingLayer, PositionEmbedding, UnembeddingLayer.                    *)
(***************************************************************************)
\* W_E[input_tokens, :] raises IndexError
EmbeddingIndexError(layer, input_tokens) ==
    \E batch \in 1..Len(input_tokens) :
        \E pos \in 1..Len(input_tokens[batch]) :
            ~PyIndexOK(input_tokens[batch][pos], Len(layer.W_E))

\* the row of W_E an id selects
EmbeddingRow(layer, id) == layer.W_E[PyIndex(id, Len(layer.W_E)) + 1]

EmbeddingLayerForward(layer, input_tokens) ==
    Tup([batch \in 1..Len(input_tokens) |->
        Tup([pos \in 1..Len(input_tokens[batch]) |->
            EmbeddingRow(layer, input_tokens[batch][pos])])])

\* the whole table, the slice forgotten
PositionRows_NoSlice(layer, n) == layer.W_P

\* W_P[:n, :], a slice: it stops at the end of the table
PositionRows(layer, n) == SubSeq(layer.W_P, 1, Min(n, Len(layer.W_P)))

PositionEmbeddingForward(layer, input_tokens) ==
    Tup([batch \in 1..Len(input_tokens) |->
        PositionRows(layer, Len(input_tokens[1]))])

UnembeddingLayerForward(layer, resid_embed_last) ==
    Tup([batch \in 1..Len(resid_embed_last) |->
        Tup([pos \in 1..Len(resid_embed_last[batch]) |->
            Tup([v \in 1..Len(layer.b_U) |->
                SumFn(Tup([m \in 1..Len(layer.W_U) |->
                          Mul(resid_embed_last[batch][pos][m], layer.W_U[m][v])]),
                      Len(layer.W_U))
                + layer.b_U[v]])])])

(***************************************************************************)
(* LayerNorm.                                                              *)
(***************************************************************************)
\* Tensor.var(dim=-1) with its default correction of 1
TensorVar(x) ==
    LET d == Len(x)
        mu == Quot(Sum(x), d)
    IN  Quot(Sum(Tup([m \in 1..d |-> Mul(x[m] - mu, x[m] - mu)])), d - 1)

\* input_centered / layer_scale for one position
LayerNormNormalize(layer, x) ==
    LET d == Len(x)
        layer_mean == Quot(Sum(x), d)
        input_centered == Tup([m \in 1..d |-> x[m] - layer_mean])
        layer_var == TensorVar(input_centered)
        layer_scale == SqrtFP(layer_var + layer.layer_norm_eps)
    IN  Tup([m \in 1..d |-> DivFP(input_centered[m], layer_scale)])

LayerNormRow(layer, x) ==
    LET input_normalized == LayerNormNormalize(layer, x)
    IN  Tup([m \in 1..Len(x) |-> Mul(input_normalized[m], layer.gains[m]) + layer.bias[m]])

LayerNormForward(layer, input) ==
    Tup([batch \in 1..Len(input) |->
        Tup([pos \in 1..Len(input[batch]) |-> LayerNormRow(layer, input[batch][pos])])])

(***************************************************************************)
(* SelfAttention.                                                          *)
(***************************************************************************)
\* einsum(resid_pre, W, "batch pos d_model, n_heads d_model d_head ->
\* batch pos n_heads d_head") + b
HeadProjection(resid_pre, W, b) ==
    Tup([batch \in 1..Len(resid_pre) |->
        Tup([pos \in 1..Len(resid_pre[batch]) |->
            Tup([h \in 1..Len(W) |->
                Tup([e \in 1..Len(b[h]) |->
                    SumFn(Tup([m \in 1..Len(W[h]) |->
                              Mul(resid_pre[batch][pos][m], W[h][m][e])]),
                          Len(W[h]))
                    + b[h][e]])])])])

\* einsum(queries, keys, "... -> batch n_heads query_pos key_pos")
AttentionScores(queries, keys) ==
    Tup([batch \in 1..Len(queries) |->
        Tup([h \in 1..Len(queries[batch][1]) |->
            Tup([query_pos \in 1..Len(queries[batch]) |->
                Tup([key_pos \in 1..Len(keys[batch]) |->
                    SumFn(Tup([e \in 1..Len(queries[batch][query_pos][h]) |->
                              Mul(queries[batch][query_pos][h][e],
                                  keys[batch][key_pos][h][e])]),
                          Len(queries[batch][query_pos][h]))])])])])

\* attn_pattern /= math.sqrt(d_head)
ScaleScores(attn_pattern, d_head) ==
    Tup([batch \in 1..Len(attn_pattern) |->
        Tup([h \in 1..Len(attn_pattern[batch]) |->
            Tup([query_pos \in 1..Len(attn_pattern[batch][h]) |->
                Tup([key_pos \in 1..Len(attn_pattern[batch][h][query_pos]) |->
                    DivFP(attn_pattern[batch][h][query_pos][key_pos],
                          SqrtFP(d_head * FP))])])])])

\* the mask of torch.triu(..., diagonal=0): the diagonal is masked too
CausalMask_Diagonal(query_pos, key_pos) == key_pos >= query_pos

\* torch.triu(torch.ones(q, k), diagonal=1).bool()
CausalMask(query_pos, key_pos) == key_pos > query_pos

\* attn_pattern.masked_fill_(mask, mask_val)
MaskedFill(attn_pattern, mask_val) ==
    Tup([batch \in 1..Len(attn_pattern) |->
        Tup([h \in 1..Len(attn_pattern[batch]) |->
            Tup([query_pos \in 1..Len(attn_pattern[batch][h]) |->
                Tup([key_pos \in 1..Len(attn_pattern[batch][h][query_pos]) |->
                    IF CausalMask(query_pos, key_pos)
                    THEN mask_val
                    ELSE attn_pattern[batch][h][query_pos][key_pos]])])])])

\* softmax of one row: exp(x - max) / sum(exp(x - max))
SoftmaxRow(x) ==
    LET n == Len(x)
        mx == MaxFn(x, n)
        ex == Tup([k \in 1..n |-> ExpFP(x[k] - mx)])
        total == SumFn(ex, n)
    IN  Tup([k \in 1..n |-> DivFP(ex[k], total)])

\* nn.Softmax(dim=-1)(attn_pattern)
Softmax(attn_pattern) ==
    Tup([batch \in 1..Len(attn_pattern) |->
        Tup([h \in 1..Len(attn_pattern[batch]) |->
            Tup([query_pos \in 1..Len(attn_pattern[batch][h]) |->
                SoftmaxRow(attn_pattern[batch][h][query_pos])])])])

\* the attention probabilities of a call, [batch, n_heads, query_pos, key_pos]
AttentionPattern(layer, resid_pre) ==
    LET keys == HeadProjection(resid_pre, layer.W_K, layer.b_K)
        queries == HeadProjection(resid_pre, layer.W_Q, layer.b_Q)
        scores == AttentionScores(queries, keys)
        scaled == ScaleScores(scores, Len(layer.W_Q[1][1]))
        masked == MaskedFill(scaled, layer.mask_val)
    IN  Softmax(masked)

\* einsum(attn_pattern, values, "... -> batch n_heads query_pos d_head")
ContextVec(attn_pattern, values) ==
    Tup([batch \in 1..Len(attn_pattern) |->
        Tup([h \in 1..Len(attn_pattern[batch]) |->
            Tup([query_pos \in 1..Len(attn_pattern[batch][h]) |->
                Tup([e \in 1..Len(values[batch][1][h]) |->
                    SumFn(Tup([key_pos \in 1..Len(values[batch]) |->
                              Mul(attn_pattern[batch][h][query_pos][key_pos],
                                  values[batch][key_pos][h][e])]),
                          Len(values[batch]))])])])])

\* einsum(context_vec, W_O, "... -> batch query_pos d_model") + b_O
AttentionOutput(context_vec, W_O, b_O) ==
    Tup([batch \in 1..Len(context_vec) |->
        Tup([query_pos \in 1..Len(context_vec[batch][1]) |->
            Tup([m \in 1..Len(b_O) |->
                SumFn(Tup([h \in 1..Len(W_O) |->
                          SumFn(Tup([e \in 1..Len(W_O[h]) |->
                                    Mul(context_vec[batch][h][query_pos][e],
                                        W_O[h][e][m])]),
                                Len(W_O[h]))]),
                      Len(W_O))
                + b_O[m]])])])

SelfAttentionForward(layer, resid_pre) ==
    LET values == HeadProjection(resid_pre, layer.W_V, layer.b_V)
        attn_pattern == AttentionPattern(layer, resid_pre)
        context_vec == ContextVec(attn_pattern, values)
    IN  AttentionOutput(context_vec, layer.W_O, layer.b_O)

(***************************************************************************)
(* SelfAttention.forward statement by statement, over the tensors it can   *)
(* reach.  A heap maps the name of a tensor to its value: the parameters   *)
(* and the mask value of the layer, the caller's tensor ("input", which    *)
(* the argument resid_pre names), and the tensors the call creates, each   *)
(* named after the local variable it is bound to.  An einsum, a sum and    *)
(* nn.Softmax return a new tensor; /= and masked_fill_ write into the      *)
(* tensor their left-hand side names.                                      *)
(***************************************************************************)
\* the tensors reachable when the call is entered
AttnHeap(layer, resid_pre) ==
    [W_Q |-> layer.W_Q, b_Q |-> layer.b_Q, W_K |-> layer.W_K, b_K |-> layer.b_K,
     W_V |-> layer.W_V, b_V |-> layer.b_V, W_O |-> layer.W_O, b_O |-> layer.b_O,
     mask_val |-> layer.mask_val, input |-> resid_pre]

\* name = <expression>: a tensor created by the call
NewTensor(heap, name, value) ==
    [x \in DOMAIN heap \cup {name} |-> IF x = name THEN value ELSE heap[x]]

\* an in-place operation on the tensor called name
InPlace(heap, name, value) == [heap EXCEPT ![name] = value]

\* keys = einsum(resid_pre, self.W_K, ...) + self.b_K
KeysStep(h) == NewTensor(h, "keys", HeadProjection(h.input, h.W_K, h.b_K))

\* queries = einsum(resid_pre, self.W_Q, ...) + self.b_Q
QueriesStep(h) == NewTensor(h, "queries", HeadProjection(h.input, h.W_Q, h.b_Q))

\* values = einsum(resid_pre, self.W_V, ...) + self.b_V
ValuesStep(h) == NewTensor(h, "values", HeadProjection(h.input, h.W_V, h.b_V))

\* attn_pattern = einsum(queries, keys, ...)
ScoresStep(h) == NewTensor(h, "attn_pattern", AttentionScores(h.queries, h.keys))

\* a scaling that also divides the mask value in place
ScaleStep_ScaledMask(h) ==
    InPlace(InPlace(h, "attn_pattern", ScaleScores(h.attn_pattern, Len(h.W_Q[1][1]))),
            "mask_val", DivFP(h.mask_val, SqrtFP(Len(h.W_Q[1][1]) * FP)))

\* attn_pattern /= math.sqrt(self.W_Q.shape[-1])
ScaleStep(h) ==
    InPlace(h, "attn_pattern", ScaleScores(h.attn_pattern, Len(h.W_Q[1][1])))

\* attn_pattern.masked_fill_(mask, self.mask_val)
MaskStep(h) == InPlace(h, "attn_pattern", MaskedFill(h.attn_pattern, h.mask_val))

\* attn_pattern = nn.Softmax(dim=-1)(attn_pattern)
SoftmaxStep(h) == NewTensor(h, "attn_pattern", Softmax(h.attn_pattern))

\* context_vec = einsum(attn_pattern, values, ...)
ContextStep(h) == NewTensor(h, "context_vec", ContextVec(h.attn_pattern, h.values))

\* output = einsum(context_vec, self.W_O, ...) + self.b_O
OutputStep(h) ==
    NewTensor(h, "output", AttentionOutput(h.context_vec, h.W_O, h.b_O))

\* the heap on entry and after each statement of SelfAttention.forward
SelfAttentionSteps(layer, resid_pre) ==
    LET h0 == AttnHeap(layer, resid_pre)
        h1 == KeysStep(h0)
        h2 == QueriesStep(h1)
        h3 == ValuesStep(h2)
        h4 == ScoresStep(h3)
        h5 == ScaleStep(h4)
        h6 == MaskStep(h5)
        h7 == SoftmaxStep(h6)
        h8 == ContextStep(h7)
        h9 == OutputStep(h8)
    IN  <<h0, h1, h2, h3, h4, h5, h6, h7, h8, h9>>

\* the heap when the call returns
SelfAttentionHeapAfter(layer, resid_pre) ==
    LET steps == SelfAttentionSteps(layer, resid_pre)
    IN  steps[Len(steps)]

\* the layer as the call leaves it: its fields read back from the heap
SelfAttentionLayerAfter(layer, resid_pre) ==
    LET h == SelfAttentionHeapAfter(layer, resid_pre)
    IN  [layer EXCEPT !.W_Q = h.W_Q, !.b_Q = h.b_Q, !.W_K = h.W_K, !.b_K = h.b_K,
                      !.W_V = h.W_V, !.b_V = h.b_V, !.W_O = h.W_O, !.b_O = h.b_O,
                      !.mask_val = h.mask_val]

(***************************************************************************)
(* MLP.                                                                    *)
(***************************************************************************)
\* 0.5 * x * (1 + tanh(sqrt(2 / pi) * (x + 0.04715 * x^3)))
gelu_new(input) ==
    LET cube == Mul(Mul(input, input), input)
        inner == input + Quot(cube * 4715, 100000)
        t == TanhFP(Quot(inner * 798, 1000))
    IN  Quot(Mul(input, FP + t), 2)

\* nn.Linear: x W^T + b for one position, weight of shape [out, in]
Linear(layer, x) ==
    Tup([o \in 1..Len(layer.weight) |->
        SumFn(Tup([i \in 1..Len(x) |-> Mul(x[i], layer.weight[o][i])]), Len(x))
        + layer.bias[o]])

MLPRow(layer, x) ==
    LET pre_act == Linear(layer.input_layer, x)
        act == Tup([i \in 1..Len(pre_act) |-> gelu_new(pre_act[i])])
    IN  Linear(layer.output_layer, act)

MLPForward(layer, resid_attended) ==
    Tup([batch \in 1..Len(resid_attended) |->
        Tup([pos \in 1..Len(resid_attended[batch]) |->
            MLPRow(layer, resid_attended[batch][pos])])])

(***************************************************************************)
(* TransformerBlock.                                                       *)
(***************************************************************************)
\* the post-normalization block: each LayerNorm is applied to the sum, and
\* its output replaces the residual stream
TransformerBlockForward_PostNorm(block, resid_pre) ==
    LET attn_out == SelfAttentionForward(block.attn, resid_pre)
        resid_mid == LayerNormForward(block.ln1, TensorAdd(resid_pre, attn_out))
    IN  LayerNormForward(block.ln2, TensorAdd(resid_mid, MLPForward(block.mlp, resid_mid)))

TransformerBlockForward(block, resid_pre) ==
    LET ln1_out == LayerNormForward(block.ln1, resid_pre)
        attn_out == SelfAttentionForward(block.attn, ln1_out)
        resid_mid == TensorAdd(resid_pre, attn_out)
        ln2_out == LayerNormForward(block.ln2, resid_mid)
    IN  TensorAdd(resid_mid, MLPForward(block.mlp, ln2_out))

\* the block as the call leaves it: LayerNorm and MLP hold no in-place
\* operation; SelfAttention is left as its forward leaves it
TransformerBlockAfter(block, resid_pre) ==
    [block EXCEPT !.attn = SelfAttentionLayerAfter(block.attn,
                                                   LayerNormForward(block.ln1, resid_pre))]

(***************************************************************************)
(* Construction.  A parameter created with nn.init.normal_ holds a draw    *)
(* from a normal distribution, whose support is every float; torch.zeros   *)
(* gives zeros; nn.Linear draws its weight and its bias uniformly from     *)
(* (-1/sqrt(fan_in), 1/sqrt(fan_in)).  A draw w fixes the magnitude of     *)
(* each drawn tensor, and the index of an entry fixes its sign.  Each      *)
(* layer records how every one of its parameters was initialised.          *)
(***************************************************************************)
Normal(std) == [dist |-> "normal", std |-> std]
Zeros == [dist |-> "zeros"]
LinearDefault == [dist |-> "uniform"]

Alt(n) == IF n % 2 = 0 THEN 1 ELSE -1

\* init_std = 0.02, the default of every layer's constructor
DefaultInitStd == 2

\* layer_norm_eps = 1e-5, held as the smallest positive fixed-point value
DefaultLayerNormEps == 1

\* mask_val = -1e5, the default of SelfAttention's constructor
DefaultMaskVal == -(100000 * FP)

EmbeddingLayerInit(d_vocab, d_model, init_std, w) ==
    [W_E |-> Tup([r \in 1..d_vocab |-> Tup([m \in 1..d_model |-> w.e * Alt(r + m) * ((r + 1) \div 2)])]),
     init |-> [W_E |-> Normal(init_std)]]

PositionEmbeddingInit(max_ctx, d_model, init_std, w) ==
    [W_P |-> Tup([p \in 1..max_ctx |-> Tup([m \in 1..d_model |-> w.p * Alt(m) * p])]),
     init |-> [W_P |-> Normal(init_std)]]

UnembeddingLayerInit(d_vocab, d_model, init_std, w) ==
    [W_U |-> Tup([m \in 1..d_model |-> Tup([v \in 1..d_vocab |-> w.u * Alt(m + v)])]),
     b_U |-> Tup([v \in 1..d_vocab |-> 0]),
     init |-> [W_U |-> Normal(init_std), b_U |-> Zeros]]

LayerNormInit(d_model, init_std, layer_norm_eps, w) ==
    [gains |-> Tup([m \in 1..d_model |-> w.g]),
     bias |-> Tup([m \in 1..d_model |-> 0]),
     layer_norm_eps |-> layer_norm_eps,
     init |-> [gains |-> Normal(init_std), bias |-> Zeros]]

SelfAttentionInit(n_heads, d_model, d_head, mask_val, init_std, w) ==
    [W_Q |-> Tup([h \in 1..n_heads |-> Tup([m \in 1..d_model |-> Tup([e \in 1..d_head |-> w.q * Alt(m)])])]),
     b_Q |-> Tup([h \in 1..n_heads |-> Tup([e \in 1..d_head |-> 0])]),
     W_K |-> Tup([h \in 1..n_heads |-> Tup([m \in 1..d_model |-> Tup([e \in 1..d_head |-> w.k * Alt(m)])])]),
     b_K |-> Tup([h \in 1..n_heads |-> Tup([e \in 1..d_head |-> 0])]),
     W_V |-> Tup([h \in 1..n_heads |-> Tup([m \in 1..d_model |-> Tup([e \in 1..d_head |-> w.v * Alt(m + h)])])]),
     b_V |-> Tup([h \in 1..n_heads |-> Tup([e \in 1..d_head |-> 0])]),
     W_O |-> Tup([h \in 1..n_heads |-> Tup([e \in 1..d_head |-> Tup([m \in 1..d_model |-> w.o * Alt(m + e + h)])])]),
     b_O |-> Tup([m \in 1..d_model |-> 0]),
     mask_val |-> mask_val,
     init |-> [W_Q |-> Normal(init_std), b_Q |-> Zeros,
               W_K |-> Normal(init_std), b_K |-> Zeros,
               W_V |-> Normal(init_std), b_V |-> Zeros,
               W_O |-> Normal(init_std), b_O |-> Zeros]]

\* nn.Linear(in_features, out_features) with its default initialisation
LinearInit(in_features, out_features, wt, bs) ==
    [weight |-> Tup([o \in 1..out_features |-> Tup([i \in 1..in_features |-> wt * Alt(o + i)])]),
     bias |-> Tup([o \in 1..out_features |-> bs]),
     init |-> [weight |-> LinearDefault, bias |-> LinearDefault]]

MLPInit(d_mlp, d_model, w) ==
    [input_layer |-> LinearInit(d_model, d_mlp, w.w_in, w.b_in),
     output_layer |-> LinearInit(d_mlp, d_model, w.w_out, w.b_out)]

TransformerBlockInit(d_model, d_mlp, d_head, n_heads, w) ==
    [ln1 |-> LayerNormInit(d_model, DefaultInitStd, DefaultLayerNormEps, w),
     attn |-> SelfAttentionInit(n_heads, d_model, d_head, DefaultMaskVal, DefaultInitStd, w),
     ln2 |-> LayerNormInit(d_model, DefaultInitStd, DefaultLayerNormEps, w),
     mlp |-> MLPInit(d_mlp, d_model, w)]

\* config.num_blocks cannot be read: the attribute is not set
NumBlocksMissing(config) == "num_blocks" \notin DOMAIN config

\* "for _ in config.num_blocks" cannot iterate: the value is an int
NumBlocksNotIterable(config) ==
    ~NumBlocksMissing(config) /\ config.num_blocks.kind = "int"

\* the exception Transformer.__init__ raises, "" when it raises none
TransformerInitError(config) ==
    IF NumBlocksMissing(config) THEN "AttributeError"
    ELSE IF NumBlocksNotIterable(config) THEN "TypeError"
    ELSE ""

TransformerInit(config, w) ==
    [embed |-> EmbeddingLayerInit(config.d_vocab, config.d_model, config.init_std, w),
     pos_embed |-> PositionEmbeddingInit(config.max_ctx, config.d_model, config.init_std, w),
     transformer |-> Tup([i \in 1..config.num_blocks.n |->
                         TransformerBlockInit(config.d_model, config.d_mlp,
                                              config.d_head, config.n_heads, w)]),
     ln |-> LayerNormInit(config.d_model, config.init_std, config.layer_norm_eps, w),
     unembed |-> UnembeddingLayerInit(config.d_vocab, config.d_model, config.init_std, w)]

(***************************************************************************)
(* cross_entropy_lm.                                                       *)
(***************************************************************************)
\* nn.LogSoftmax over one row: (x - max) - log(sum(exp(x - max)))
LogSoftmaxRow(x) ==
    LET n == Len(x)
        mx == MaxFn(x, n)
        total == SumFn(Tup([v \in 1..n |-> ExpFP(x[v] - mx)]), n)
    IN  Tup([v \in 1..n |-> (x[v] - mx) - LogFP(total)])

\* t[:, :-1]
DropLast(t) == Tup([batch \in 1..Len(t) |-> SubSeq(t[batch], 1, Len(t[batch]) - 1)])

\* t[:, 1:]
DropFirst(t) == Tup([batch \in 1..Len(t) |-> SubSeq(t[batch], 2, Len(t[batch]))])

\* torch.gather raises when an index is outside [0, d_vocab)
GatherIndexError(logits, tokens) ==
    \E batch \in 1..Len(tokens) :
        \E pos \in 2..Len(tokens[batch]) :
            tokens[batch][pos] \notin 0..(Len(logits[batch][1]) - 1)

\* torch.gather(src, dim=-1, index).squeeze(-1): src[b][i][index[b][i]]
Gather(src, index) ==
    Tup([batch \in 1..Len(index) |->
        Tup([pos \in 1..Len(index[batch]) |-> src[batch][pos][index[batch][pos] + 1]])])

\* Tensor.mean over a row: nan for an empty row
MeanRow(x) ==
    IF Len(x) = 0 THEN [nan |-> TRUE, val |-> 0]
    ELSE [nan |-> FALSE, val |-> Quot(Sum(x), Len(x))]

\* the logits at position i scored against the token at position i
cross_entropy_lm_NoShift(logits, tokens) ==
    LET log_probs == Tup([batch \in 1..Len(logits) |->
                         Tup([pos \in 1..Len(logits[batch]) |->
                             LogSoftmaxRow(logits[batch][pos])])])
        pred_log_probs == Gather(DropFirst(log_probs), DropFirst(tokens))
    IN  Tup([batch \in 1..Len(pred_log_probs) |-> MeanRow(pred_log_probs[batch])])

\* the mean negative log-probability
cross_entropy_lm_Negated(logits, tokens) ==
    LET log_probs == Tup([batch \in 1..Len(logits) |->
                         Tup([pos \in 1..Len(logits[batch]) |->
                             LogSoftmaxRow(logits[batch][pos])])])
        pred_log_probs == Gather(DropLast(log_probs), DropFirst(tokens))
        mean == Tup([batch \in 1..Len(pred_log_probs) |-> MeanRow(pred_log_probs[batch])])
    IN  Tup([batch \in 1..Len(mean) |-> [nan |-> mean[batch].nan, val |-> -mean[batch].val]])

cross_entropy_lm(logits, tokens) ==
    LET log_probs == Tup([batch \in 1..Len(logits) |->
                         Tup([pos \in 1..Len(logits[batch]) |->
                             LogSoftmaxRow(logits[batch][pos])])])
        pred_log_probs == Gather(DropLast(log_probs), DropFirst(tokens))
    IN  Tup([batch \in 1..Len(pred_log_probs) |-> MeanRow(pred_log_probs[batch])])

(***************************************************************************)
(* Transformer.forward as a function of the model and the tokens.          *)
(***************************************************************************)
\* embedded + pos_embed raises: the position axes do not broadcast
EmbedSumError(model, tokens) ==
    ~Broadcastable(EmbeddingLayerForward(model.embed, tokens),
                   PositionEmbeddingForward(model.pos_embed, tokens))

\* the exception Transformer.forward raises, "" when it raises none
TransformerForwardError(model, tokens) ==
    IF EmbeddingIndexError(model.embed, tokens) THEN "IndexError"
    ELSE IF EmbedSumError(model, tokens) THEN "RuntimeError"
    ELSE ""

RECURSIVE ApplyBlocks(_, _, _)
\* the residual stream after the first n blocks
ApplyBlocks(blocks, n, resid) ==
    IF n = 0 THEN resid
    ELSE TransformerBlockForward(blocks[n], ApplyBlocks(blocks, n - 1, resid))

TransformerForward(model, tokens) ==
    LET embedded == EmbeddingLayerForward(model.embed, tokens)
        pos_embed == PositionEmbeddingForward(model.pos_embed, tokens)
        resid == ApplyBlocks(model.transformer, Len(model.transformer),
                             BroadcastAdd(embedded, pos_embed))
        resid_normalized_final == LayerNormForward(model.ln, resid)
    IN  UnembeddingLayerForward(model.unembed, resid_normalized_final)

(***************************************************************************)
(* The inputs of the model: configurations, parameter draws, token ids.    *)
(***************************************************************************)
MaxTokens == 6

\* the sizes a configuration fixes; num_blocks is set separately
ConfigShapes ==
    { [d_model |-> 2, d_head |-> 1, n_heads |-> 2, d_mlp |-> 1, max_ctx |-> MaxPos,
       init_std |-> DefaultInitStd],
      [d_model |-> 3, d_head |-> 2, n_heads |-> 1, d_mlp |-> 2, max_ctx |-> MaxPos,
       init_std |-> 5],
      [d_model |-> 2, d_head |-> 1, n_heads |-> 1, d_mlp |-> 2, max_ctx |-> MaxPos - 1,
       init_std |-> DefaultInitStd],
      [d_model |-> 2, d_head |-> 1, n_heads |-> 2, d_mlp |-> 1, max_ctx |-> 1,
       init_std |-> 5] }

\* the Config dataclass as the notebook declares it: no num_blocks attribute
ConfigOf(sh) ==
    [d_model |-> sh.d_model, d_head |-> sh.d_head, n_heads |-> sh.n_heads,
     d_mlp |-> sh.d_mlp, d_vocab |-> 2, layer_norm_eps |-> DefaultLayerNormEps,
     init_std |-> sh.init_std, max_ctx |-> sh.max_ctx]

\* a Config with the attribute num_blocks set by the caller
WithNumBlocks(c, nb) ==
    [f \in DOMAIN c \cup {"num_blocks"} |-> IF f = "num_blocks" THEN nb ELSE c[f]]

\* what a caller may set num_blocks to: the int n, or an iterable of n items
NumBlocksValues ==
    { [kind |-> k, n |-> n] : k \in {"int", "iterable"}, n \in 1..MaxBlocks }

Configs ==
    { ConfigOf(sh) : sh \in ConfigShapes }
    \cup { WithNumBlocks(ConfigOf(sh), nb) : sh \in ConfigShapes, nb \in NumBlocksValues }

\* the magnitudes of the drawn parameters: one ordinary draw, and one with
\* large query and key weights of opposite sign
Draws ==
    { [e |-> 100, p |-> 30, g |-> 100, q |-> 100, k |-> 100, v |-> 100, o |-> 300,
       w_in |-> 50, b_in |-> 20, w_out |-> 50, b_out |-> 10, u |-> 100],
      [e |-> 100, p |-> 30, g |-> 100, q |-> 25000, k |-> -25000, v |-> 100, o |-> 300,
       w_in |-> 50, b_in |-> 20, w_out |-> 50, b_out |-> 10, u |-> 100] }

\* the [batch, position] shapes of the inputs
InputShapes ==
    { <<b, p>> \in (1..MaxBatch) \X (1..MaxPos) : b * p <= MaxTokens }

\* every [batch, position] tensor of ids in [0, d_vocab)
ValidInputs(d_vocab) ==
    UNION { [1..sh[1] -> [1..sh[2] -> 0..(d_vocab - 1)]] : sh \in InputShapes }

\* ids outside [0, d_vocab): below -d_vocab, negative, and d_vocab
BadIds(d_vocab) == { -(d_vocab + 1), -1, d_vocab }

\* an all-zero input with one id replaced by an id outside [0, d_vocab)
InvalidInputs(d_vocab) ==
    { [b \in 1..sh[1] |-> [p \in 1..sh[2] |-> IF <<b, p>> = at THEN id ELSE 0]] :
        sh \in InputShapes, at \in (1..MaxBatch) \X (1..MaxPos), id \in BadIds(d_vocab) }
    \ ValidInputs(d_vocab)

TokenInputs(d_vocab) == ValidInputs(d_vocab) \cup InvalidInputs(d_vocab)

(***************************************************************************)
(* The state: a configuration, the Transformer built from it, and the      *)
(* tensors of the forward call in progress.                                *)
(*   pc: "new" before Transformer(config), "failed" when it raised,        *)
(*       "ready" between calls, then the next step of Transformer.forward  *)
(*       ("embed", "pos_embed", "add", "blocks", "ln", "unembed"), "done"  *)
(*       when it returned, "scored" after cross_entropy_lm, "error" when   *)
(*       the call raised, and "ready" again once its tensors are released. *)
(***************************************************************************)
VARIABLES config, model, pc, err, tokens, embedded, pos_embed, resid,
          block_in, blk, resid_normalized_final, logits, loss

vars == <<config, model, pc, err, tokens, embedded, pos_embed, resid,
          block_in, blk, resid_normalized_final, logits, loss>>

runtime == <<embedded, pos_embed, resid, block_in, blk,
             resid_normalized_final, logits, loss>>

None == <<>>

NoRuntime ==
    /\ embedded = None
    /\ pos_embed = None
    /\ resid = None
    /\ block_in = None
    /\ blk = 0
    /\ resid_normalized_final = None
    /\ logits = None
    /\ loss = None

Init ==
    /\ config \in Configs
    /\ model = None
    /\ pc = "new"
    /\ err = ""
    /\ tokens = None
    /\ NoRuntime

\* model = Transformer(config)
Construct ==
    /\ pc = "new"
    /\ IF TransformerInitError(config) # ""
       THEN /\ pc' = "failed"
            /\ err' = TransformerInitError(config)
            /\ model' = model
       ELSE /\ \E w \in Draws : model' = TransformerInit(config, w)
            /\ pc' = "ready"
            /\ err' = err
    /\ UNCHANGED <<config, tokens, runtime>>

\* logits = model(tokens): the call is entered with the tokens of a batch
Forward ==
    /\ pc = "ready"
    /\ tokens' \in TokenInputs(config.d_vocab)
    /\ pc' = "embed"
    /\ UNCHANGED <<config, model, err, runtime>>

\* the tensors of a finished call (or its exception) go out of use: they
\* belong to the call, and the next call creates its own
Release ==
    /\ pc \in {"done", "scored", "error"}
    /\ pc' = "ready"
    /\ err' = ""
    /\ tokens' = None
    /\ embedded' = None
    /\ pos_embed' = None
    /\ resid' = None
    /\ block_in' = None
    /\ blk' = 0
    /\ resid_normalized_final' = None
    /\ logits' = None
    /\ loss' = None
    /\ UNCHANGED <<config, model>>

\* embedded = self.embed(tokens)
Embed ==
    /\ pc = "embed"
    /\ IF EmbeddingIndexError(model.embed, tokens)
       THEN /\ pc' = "error"
            /\ err' = "IndexError"
            /\ embedded' = embedded
       ELSE /\ embedded' = EmbeddingLayerForward(model.embed, tokens)
            /\ pc' = "pos_embed"
            /\ err' = err
    /\ UNCHANGED <<config, model, tokens, pos_embed, resid, block_in, blk,
                   resid_normalized_final, logits, loss>>

\* pos_embed = self.pos_embed(tokens)
PosEmbed ==
    /\ pc = "pos_embed"
    /\ pos_embed' = PositionEmbeddingForward(model.pos_embed, tokens)
    /\ pc' = "add"
    /\ UNCHANGED <<config, model, err, tokens, embedded, resid, block_in, blk,
                   resid_normalized_final, logits, loss>>

\* resid = embedded + pos_embed
AddEmbed ==
    /\ pc = "add"
    /\ IF ~Broadcastable(embedded, pos_embed)
       THEN /\ pc' = "error"
            /\ err' = "RuntimeError"
            /\ resid' = resid
            /\ blk' = blk
       ELSE /\ resid' = BroadcastAdd(embedded, pos_embed)
            /\ blk' = 1
            /\ pc' = IF Len(model.transformer) = 0 THEN "ln" ELSE "blocks"
            /\ err' = err
    /\ UNCHANGED <<config, model, tokens, embedded, pos_embed, block_in,
                   resid_normalized_final, logits, loss>>

\* resid = self.transformer[i](resid), one pass of the loop
Block ==
    /\ pc = "blocks"
    /\ block_in' = resid
    /\ resid' = TransformerBlockForward(model.transformer[blk], resid)
    /\ blk' = blk + 1
    /\ model' = [model EXCEPT !.transformer[blk] =
                                  TransformerBlockAfter(model.transformer[blk], resid)]
    /\ pc' = IF blk = Len(model.transformer) THEN "ln" ELSE "blocks"
    /\ UNCHANGED <<config, err, tokens, embedded, pos_embed,
                   resid_normalized_final, logits, loss>>

\* resid_normalized_final = self.ln(resid)
FinalLayerNorm ==
    /\ pc = "ln"
    /\ resid_normalized_final' = LayerNormForward(model.ln, resid)
    /\ pc' = "unembed"
    /\ UNCHANGED <<config, model, err, tokens, embedded, pos_embed, resid,
                   block_in, blk, logits, loss>>

\* logits = self.unembed(resid_normalized_final); return logits
Unembed ==
    /\ pc = "unembed"
    /\ logits' = UnembeddingLayerForward(model.unembed, resid_normalized_final)
    /\ pc' = "done"
    /\ UNCHANGED <<config, model, err, tokens, embedded, pos_embed, resid,
                   block_in, blk, resid_normalized_final, loss>>

\* loss = cross_entropy_lm(logits, tokens)
CrossEntropy ==
    /\ pc = "done"
    /\ IF GatherIndexError(logits, tokens)
       THEN /\ pc' = "error"
            /\ err' = "RuntimeError"
            /\ loss' = loss
       ELSE /\ loss' = cross_entropy_lm(logits, tokens)
            /\ pc' = "scored"
            /\ err' = err
    /\ UNCHANGED <<config, model, tokens, embedded, pos_embed, resid, block_in,
                   blk, resid_normalized_final, logits>>

Next ==
    \/ Construct
    \/ Forward
    \/ Embed
    \/ PosEmbed
    \/ AddEmbed
    \/ Block
    \/ FinalLayerNorm
    \/ Unembed
    \/ CrossEntropy
    \/ Release

Spec == Init /\ [][Next]_vars

(***************************************************************************)
(* cross_entropy_lm on its own: any logits, any tokens of the same         *)
(* [batch, position].                                                      *)
(***************************************************************************)
LogitRows == { <<0, 0>>, <<150, -50>>, <<-300, 100>> }

InitLoss ==
    /\ config = ConfigOf(CHOOSE sh \in ConfigShapes : sh.d_model = 3)
    /\ model = None
    /\ pc = "done"
    /\ err = ""
    /\ \E sh \in InputShapes :
          /\ logits \in [1..sh[1] -> [1..sh[2] -> LogitRows]]
          /\ tokens \in { t \in TokenInputs(2) : Shape2(t) = sh }
    /\ embedded = None
    /\ pos_embed = None
    /\ resid = None
    /\ block_in = None
    /\ blk = 0
    /\ resid_normalized_final = None
    /\ loss = None

NextLoss == CrossEntropy

SpecLoss == InitLoss /\ [][NextLoss]_vars

(***************************************************************************)
(* Properties.                                                             *)
(***************************************************************************)
\* the model has been built
Built == pc \notin {"new", "failed"}

\* a forward call has been entered
Called == Built /\ pc # "ready"

\* a pass of the loop over the blocks has just ended
AfterBlock == pc \in {"blocks", "ln"} /\ blk > 1

\* t has exactly the shape [b, p, d]
IsShape3(t, b, p, d) ==
    /\ Len(t) = b
    /\ \A i \in 1..b : Len(t[i]) = p
    /\ \A i \in 1..b : \A j \in 1..p : Len(t[i][j]) = d

\* every id of the tokens is in [0, d_vocab)
IdsInRange(t, d_vocab) ==
    \A b \in 1..Len(t) : \A p \in 1..Len(t[b]) : t[b][p] \in 0..(d_vocab - 1)

\* the configuration sets num_blocks to an integer n >= 1
HasBlockCount(c) ==
    /\ "num_blocks" \in DOMAIN c
    /\ c.num_blocks.kind = "int"
    /\ c.num_blocks.n >= 1

\* C1: for a configuration with n_blocks >= 1 and valid token ids of shape
\* [batch, position], 1 <= position <= max_context_length, constructing
\* the Transformer and calling forward succeeds and returns logits of shape
\* exactly [batch, position, d_vocab].
C1_ForwardReturnsLogits ==
    HasBlockCount(config) =>
        /\ pc # "failed"
        /\ (Called /\ IdsInRange(tokens, config.d_vocab)
                   /\ Len(tokens[1]) <= config.max_ctx) =>
              /\ pc # "error"
              /\ pc \in {"done", "scored"} =>
                    IsShape3(logits, Len(tokens), Len(tokens[1]), config.d_vocab)

\* the inputs of the shape of t that raise nothing in the model
SameShapeInputs(t) ==
    { t2 \in ValidInputs(config.d_vocab) :
        /\ Shape2(t2) = Shape2(t)
        /\ TransformerForwardError(model, t2) = "" }

\* t2 agrees with t on row b at the positions 1..i
AgreeUpTo(t, t2, b, i) == \A j \in 1..i : t2[b][j] = t[b][j]

\* C2: causality: two inputs of one shape that agree at all positions <= i
\* and differ only at positions > i give identical logits at position i,
\* for every i and every batch row.
C2_Causality ==
    (pc = "done" /\ IdsInRange(tokens, config.d_vocab)) =>
        \A t2 \in SameShapeInputs(tokens) :
            LET logits2 == TransformerForward(model, t2)
            IN  \A b \in 1..Len(tokens) : \A i \in 1..Len(tokens[b]) :
                    AgreeUpTo(tokens, t2, b, i) => logits2[b][i] = logits[b][i]

\* the mean of the log-probabilities the logits at position i give to the
\* token at position i+1, i = 0..position-2, of batch row b
NextTokenMean(lg, tk, b) ==
    LET n == Len(tk[b]) - 1
    IN  IF n = 0 THEN [nan |-> TRUE, val |-> 0]
        ELSE [nan |-> FALSE,
              val |-> Quot(SumFn([i \in 1..n |->
                                     LogSoftmaxRow(lg[b][i])[tk[b][i + 1] + 1]], n), n)]

\* lg with the logits at the last position replaced by the row r
WithLastLogits(lg, r) ==
    [b \in 1..Len(lg) |-> [i \in 1..Len(lg[b]) |-> IF i = Len(lg[b]) THEN r ELSE lg[b][i]]]

\* tk with the token at position 0 replaced by id
WithFirstToken(tk, id) ==
    [b \in 1..Len(tk) |-> [i \in 1..Len(tk[b]) |-> IF i = 1 THEN id ELSE tk[b][i]]]

\* C3: cross_entropy_lm scores the logits at position i against the token
\* at position i+1; the logits at the last position and the token at
\* position 0 are never used; the result has shape [batch] and each entry
\* is the mean of exactly position-1 such terms.
C3_NextTokenAlignment ==
    pc = "scored" =>
        /\ Len(loss) = Len(tokens)
        /\ \A b \in 1..Len(tokens) : loss[b] = NextTokenMean(logits, tokens, b)
        /\ \A r \in LogitRows :
              cross_entropy_lm(WithLastLogits(logits, r), WithFirstToken(tokens, -7)) = loss

\* a loss of a sequence of three or more tokens whose second and third
\* token differ, in a batch of two
C3_Witness ==
    /\ pc = "scored"
    /\ Len(tokens) = 2
    /\ Len(tokens[1]) = 3
    /\ tokens[1][2] # tokens[1][3]
    /\ logits[1][1] # logits[1][2]
    /\ loss[1].val # 0

\* LayerNorm with the biased variance: the squared deviations from the
\* mean summed and divided by d_model
BiasedLayerNormRow(layer, x) ==
    LET d == Len(x)
        mean == Quot(Sum(x), d)
        centered == [m \in 1..d |-> x[m] - mean]
        variance == Quot(SumFn([m \in 1..d |-> Mul(centered[m], centered[m])], d), d)
        scale == SqrtFP(variance + layer.layer_norm_eps)
    IN  [m \in 1..d |-> Mul(DivFP(centered[m], scale), layer.gains[m]) + layer.bias[m]]

\* C4: LayerNorm.forward normalizes each position by the biased variance
\* over the last axis (denominator d_model), as (x - mean) /
\* sqrt(variance + epsilon), then applies gain and bias.
C4_BiasedVariance ==
    (pc \in {"unembed", "done", "scored"} /\ IdsInRange(tokens, config.d_vocab)) =>
        \A b \in 1..Len(resid) : \A p \in 1..Len(resid[b]) :
            \A m \in 1..Len(resid[b][p]) :
                resid_normalized_final[b][p][m] = BiasedLayerNormRow(model.ln, resid[b][p])[m]

\* C5: when position > max_context_length the forward pass fails before
\* the positional table is looked up: the positional rows are never taken
\* (truncated or not) and no logits are returned.  Stated for ids in
\* [0, d_vocab), so that the embedding lookup itself raises nothing.
C5_TooLongFailsFirst ==
    (Called /\ IdsInRange(tokens, config.d_vocab)
            /\ Len(tokens[1]) > config.max_ctx) =>
        /\ pos_embed = None
        /\ logits = None

\* C6: EmbeddingLayer.forward fails for every token id outside
\* [0, d_vocab), negative ids included: it returns no embedding.
C6_OutOfRangeIdFails ==
    (Called /\ ~IdsInRange(tokens, config.d_vocab)) => embedded = None

\* C7: TransformerBlock(x) - x = SelfAttention(LN1(x)) +
\* FeedForward(LN2(x + SelfAttention(LN1(x)))), for the block that ran last
\* and its input x.
C7_ResidualDecomposition ==
    AfterBlock =>
        LET block == model.transformer[blk - 1]
            attn == SelfAttentionForward(block.attn, LayerNormForward(block.ln1, block_in))
            ff == MLPForward(block.mlp,
                             LayerNormForward(block.ln2, TensorAdd(block_in, attn)))
        IN  TensorSub(resid, block_in) = TensorAdd(attn, ff)

\* a block has run and both sub-layers changed the residual stream
C7_Witness ==
    /\ AfterBlock
    /\ blk > 2
    /\ resid # block_in
    /\ LET block == model.transformer[blk - 1]
           attn == SelfAttentionForward(block.attn, LayerNormForward(block.ln1, block_in))
       IN  /\ TensorAdd(block_in, attn) # block_in
           /\ TensorAdd(block_in, attn) # resid

\* C8: between the embedding sum and the final LayerNorm the residual
\* stream has shape exactly [batch, position, d_model], and SelfAttention,
\* FeedForward and the TransformerBlock return a tensor of the shape of
\* their input, whether or not d_head * n_heads = d_model.
C8_ResidualShape ==
    /\ (Called /\ blk > 0) =>
          IsShape3(resid, Len(tokens), Len(tokens[1]), config.d_model)
    /\ AfterBlock =>
          LET block == model.transformer[blk - 1]
              b == Len(block_in)
              p == Len(block_in[1])
              d == Len(block_in[1][1])
              ln1_out == LayerNormForward(block.ln1, block_in)
          IN  /\ IsShape3(block_in, Len(tokens), Len(tokens[1]), config.d_model)
              /\ IsShape3(SelfAttentionForward(block.attn, ln1_out), b, p, d)
              /\ IsShape3(MLPForward(block.mlp, ln1_out), b, p, d)
              /\ IsShape3(TransformerBlockForward(block, block_in), b, p, d)

\* a block has run on a batch of two sequences of three tokens, with
\* d_head * n_heads different from d_model
C8_Witness ==
    /\ AfterBlock
    /\ config.d_head * config.n_heads # config.d_model
    /\ Shape3(resid) = <<2, 3, config.d_model>>

\* C9: cross_entropy_lm returns the mean log-probability of the true next
\* tokens, not negated: with position >= 2 every returned value is <= 0,
\* and its negation is the mean negative log-probability.
C9_MeanLogProbNotNegated ==
    (pc = "scored" /\ Len(tokens[1]) >= 2) =>
        \A b \in 1..Len(loss) :
            /\ ~loss[b].nan
            /\ loss[b].val <= 0
            /\ -loss[b].val =
                  Quot(SumFn([i \in 1..(Len(tokens[b]) - 1) |->
                                 -LogSoftmaxRow(logits[b][i])[tokens[b][i + 1] + 1]],
                             Len(tokens[b]) - 1),
                       Len(tokens[b]) - 1)

\* a loss that is strictly negative
C9_Witness ==
    /\ pc = "scored"
    /\ Len(tokens[1]) >= 2
    /\ \E b \in 1..Len(loss) : loss[b].val < 0

\* the initialisation records of the weights and of the biases of the model
WeightInits(m) ==
    {m.embed.init.W_E, m.pos_embed.init.W_P, m.ln.init.gains, m.unembed.init.W_U}
    \cup UNION { {m.transformer[i].attn.init.W_Q, m.transformer[i].attn.init.W_K,
                  m.transformer[i].attn.init.W_V, m.transformer[i].attn.init.W_O,
                  m.transformer[i].ln1.init.gains, m.transformer[i].ln2.init.gains,
                  m.transformer[i].mlp.input_layer.init.weight,
                  m.transformer[i].mlp.output_layer.init.weight} :
                 i \in 1..Len(m.transformer) }

BiasInits(m) ==
    {m.ln.init.bias, m.unembed.init.b_U}
    \cup UNION { {m.transformer[i].attn.init.b_Q, m.transformer[i].attn.init.b_K,
                  m.transformer[i].attn.init.b_V, m.transformer[i].attn.init.b_O,
                  m.transformer[i].ln1.init.bias, m.transformer[i].ln2.init.bias,
                  m.transformer[i].mlp.input_layer.init.bias,
                  m.transformer[i].mlp.output_layer.init.bias} :
                 i \in 1..Len(m.transformer) }

\* C10: after construction every weight of every layer is initialised from
\* a normal distribution with the configured init_std and every bias of
\* every layer is initialised to zero.
C10_InitNormalAndZero ==
    Built =>
        /\ \A i \in WeightInits(model) : i = Normal(config.init_std)
        /\ \A i \in BiasInits(model) : i = Zeros

\* C11: a forward pass is pure with respect to caller-visible state: every
\* step of a forward call leaves every parameter tensor and the mask value
\* of the model as they were, and the caller's tokens as they were; and at
\* every statement of SelfAttention.forward the parameters, the mask value
\* and the caller's input tensor hold their values of entry, the in-place
\* scaling and masking writing only to a tensor the call created.
C11_ForwardIsPure ==
    [][ /\ pc # "new" => model' = model
        /\ (tokens # None /\ pc' # "ready") => tokens' = tokens
        /\ pc = "blocks" =>
              LET layer == model.transformer[blk].attn
                  x == LayerNormForward(model.transformer[blk].ln1, resid)
                  steps == SelfAttentionSteps(layer, x)
              IN  /\ \A i \in 1..Len(steps) :
                        /\ \A n \in DOMAIN steps[1] : steps[i][n] = steps[1][n]
                        /\ steps[i].input = x
                        /\ steps[i].mask_val = layer.mask_val
                  /\ steps[Len(steps)].output = SelfAttentionForward(layer, x) ]_vars

\* a forward call has returned from a model with d_head = 2 (the scaling
\* divides by sqrt(2)) on sequences of two or more tokens (the mask has
\* entries to overwrite), the model being as construction left it
C11_Witness ==
    /\ pc = "done"
    /\ config.d_head = 2
    /\ Len(tokens[1]) >= 2
    /\ \E w \in Draws : model = TransformerInit(config, w)

\* the statements of SelfAttention.forward the block that ran last executed,
\* on the input LN1 gave it
LastAttentionSteps ==
    LET block == model.transformer[blk - 1]
    IN  SelfAttentionSteps(block.attn, LayerNormForward(block.ln1, block_in))

\* the softmax of the row x over its entries
SoftmaxOverKeys(x) ==
    LET mx == CHOOSE v \in { x[k] : k \in 1..Len(x) } : \A k \in 1..Len(x) : x[k] <= v
        total == SumFn([k \in 1..Len(x) |-> ExpFP(x[k] - mx)], Len(x))
    IN  [k \in 1..Len(x) |-> DivFP(ExpFP(x[k] - mx), total)]

\* the statements of SelfAttention.forward the block about to run executes,
\* on the input LN1 gives it
NextAttentionSteps ==
    LET block == model.transformer[blk]
    IN  SelfAttentionSteps(block.attn, LayerNormForward(block.ln1, resid))

\* C12: in SelfAttention.forward, whenever a block runs it, the scores are
\* first divided by sqrt(d_head); then exactly the entries with
\* key_pos > query_pos are overwritten with the mask value, itself not
\* scaled, and the entries with key_pos <= query_pos, the diagonal
\* included, keep their scaled score; then the softmax is taken over the
\* key_pos axis; for every batch row and every head.
C12_ScaleMaskSoftmax ==
    [][ pc = "blocks" =>
        LET layer == model.transformer[blk].attn
            steps == NextAttentionSteps
            scores == steps[5].attn_pattern
            scaled == steps[6].attn_pattern
            masked == steps[7].attn_pattern
            probs == steps[8].attn_pattern
            root == SqrtFP(config.d_head * FP)
        IN  /\ Len(scores) = Len(tokens)
            /\ \A b \in 1..Len(scores) :
                  /\ Len(scores[b]) = config.n_heads
                  /\ \A h \in 1..Len(scores[b]) :
                        /\ Len(scores[b][h]) = Len(tokens[b])
                        /\ \A q \in 1..Len(scores[b][h]) :
                              /\ Len(scores[b][h][q]) = Len(tokens[b])
                              /\ \A k \in 1..Len(scores[b][h][q]) :
                                    /\ scaled[b][h][q][k] = DivFP(scores[b][h][q][k], root)
                                    /\ k > q => masked[b][h][q][k] = layer.mask_val
                                    /\ k <= q => masked[b][h][q][k] = scaled[b][h][q][k]
                              /\ \E k \in 1..Len(masked[b][h][q]) :
                                    masked[b][h][q][k] = scaled[b][h][q][k]
                              /\ probs[b][h][q] = SoftmaxOverKeys(masked[b][h][q])
            /\ layer.mask_val = DefaultMaskVal
            /\ steps[10].output = SelfAttentionForward(layer, steps[1].input) ]_vars

\* a block with d_head = 2 has run on sequences of three tokens: the
\* scaling changed an unmasked score, and the mask overwrote a score that
\* was not the mask value
C12_Witness ==
    /\ AfterBlock
    /\ config.d_head = 2
    /\ Len(tokens[1]) = 3
    /\ LET steps == LastAttentionSteps
       IN  /\ steps[6].attn_pattern[1][1][2][1] # steps[5].attn_pattern[1][1][2][1]
           /\ steps[6].attn_pattern[1][1][1][3] # steps[7].attn_pattern[1][1][1][3]
           /\ steps[7].attn_pattern[1][1][2][2] # steps[7].attn_pattern[1][1][2][3]

\* construction from a configuration with the block count n gives a model
\* holding exactly n blocks
ConstructionHoldsBlocks ==
    (pc = "new" /\ HasBlockCount(config)) =>
        /\ pc' = "ready"
        /\ Len(model'.transformer) = config.num_blocks.n

\* the blocks of a model are built once: no step after construction
\* changes how many there are
BlocksBuiltOnce ==
    Built => Len(model'.transformer) = Len(model.transformer)

\* one step of a forward call is the next stage of the fixed order, applied
\* to the output of the stage before it
StageOrder ==
    /\ pc = "ready" => pc' = "embed"
    /\ pc = "embed" =>
          \/ pc' = "error"
          \/ pc' = "pos_embed" /\ embedded' = EmbeddingLayerForward(model.embed, tokens)
    /\ pc = "pos_embed" =>
          pc' = "add" /\ pos_embed' = PositionEmbeddingForward(model.pos_embed, tokens)
    /\ pc = "add" =>
          \/ pc' = "error"
          \/ /\ pc' = "blocks"
             /\ blk' = 1
             /\ resid' = BroadcastAdd(embedded, pos_embed)
    /\ pc = "blocks" =>
          /\ blk \in 1..Len(model.transformer)
          /\ blk' = blk + 1
          /\ block_in' = resid
          /\ resid' = TransformerBlockForward(model.transformer[blk], resid)
          /\ pc' = IF blk = Len(model.transformer) THEN "ln" ELSE "blocks"
    /\ pc = "ln" =>
          /\ blk = Len(model.transformer) + 1
          /\ pc' = "unembed"
          /\ resid' = resid
          /\ resid_normalized_final' = LayerNormForward(model.ln, resid)
    /\ pc = "unembed" =>
          /\ pc' = "done"
          /\ logits' = UnembeddingLayerForward(model.unembed, resid_normalized_final)
          /\ logits' = TransformerForward(model, tokens)

\* the steps of a model that was built follow the fixed order, and its
\* blocks are built once
StageOrderOfBuiltModels == [][BlocksBuiltOnce /\ StageOrder]_vars

\* C13: the model holds exactly n_blocks TransformerBlocks built once at
\* construction, and a forward pass performs token embedding plus
\* positional embedding, then block 0, ..., block n_blocks-1, each once on
\* the output of the block before it, then the final LayerNorm once, then
\* the unembedding; no stage is skipped, repeated or reordered.
C13_BlocksAndStageOrder ==
    [][ConstructionHoldsBlocks /\ BlocksBuiltOnce /\ StageOrder]_vars

====
